---- MODULE Spec2Model ----
(***************************************************************************)
(* A model of the keyed-container family of camina: Dictionary and its     *)
(* Catalog, ChainDictionary and Repository subclasses                      *)
(* (src/src/camina/mapping.py) over the Bunch contract                     *)
(* (src/src/camina/base.py).                                               *)
(*                                                                         *)
(* A python dict is an insertion-ordered sequence of <<key, value>> pairs  *)
(* with unique keys.  A python value is a string of the model: an          *)
(* immutable literal, the value None (PyNone), a zero-argument callable    *)
(* (Producer), or a reference to a mutable object whose state lives in the *)
(* variable heap.  A key argument is a record that says whether it is a    *)
(* str or a list of str, since the code branches on that.                  *)
(***************************************************************************)
EXTENDS Naturals, Sequences, FiniteSets

VARIABLES
    m,      \* the instance under test: a record of its dataclass fields
    sub,    \* the instance returned by the last m.subset(...) call, if any
    heap,   \* state of each mutable value object ("free" when not allocated)
    snap,   \* what the last keys()/values()/items() call returned
    last    \* the last call made: its name, its arguments and its outcome

vars == <<m, sub, heap, snap, last>>

(***************************************************************************)
(* Bounds of the model.                                                    *)
(***************************************************************************)
\* most entries a dict of the model holds
MaxLen == 2
\* most layers a ChainDictionary of the model holds
MaxLayers == 2
\* most entries a layer holds when a ChainDictionary is made
MaxLayerLen == 1

(***************************************************************************)
(* Values.                                                                 *)
(***************************************************************************)
PyNone == "<None>"
Producer == "<producer>"
Produced == "made"
Lits == {"x", "y"}
RefOrder == <<"r1", "r2", "r3", "r4", "r5", "r6">>
Refs == {RefOrder[i] : i \in 1..Len(RefOrder)}

Callables == {Producer}
Call(f) == Produced

(***************************************************************************)
(* Key arguments: a str, or a list of str.                                 *)
(***************************************************************************)
Str(s) == [t |-> "str", s |-> s, l |-> <<>>]
List(l) == [t |-> "list", s |-> "", l |-> l]
NoArg == [t |-> "none", s |-> "", l |-> <<>>]

_ALL_KEYS == {Str("all"), Str("All"), List(<<"all">>), List(<<"All">>)}
_DEFAULT_KEYS ==
    {Str("default"), Str("defaults"), Str("Default"), Str("Defaults"),
     List(<<"default">>), List(<<"defaults">>), List(<<"Default">>),
     List(<<"Defaults">>)}
_NONE_KEYS == {Str("none"), Str("None"), List(<<"none">>), List(<<"None">>)}

(***************************************************************************)
(* Outcomes of a call: a returned value, a returned list, a returned       *)
(* instance, or a raised exception.                                        *)
(***************************************************************************)
NoInst ==
    [kind |-> "none", contents |-> <<>>, default_factory |-> PyNone,
     default |-> NoArg, always_return_list |-> FALSE, return_first |-> FALSE,
     overwrite |-> FALSE]

Ok(v) == [err |-> "none", tag |-> "val", v |-> v, l |-> <<>>, inst |-> NoInst]
OkList(l) == [err |-> "none", tag |-> "list", v |-> "", l |-> l, inst |-> NoInst]
OkInst(i) == [err |-> "none", tag |-> "inst", v |-> "", l |-> <<>>, inst |-> i]
Raise(e) == [err |-> e, tag |-> "raise", v |-> "", l |-> <<>>, inst |-> NoInst]

(***************************************************************************)
(* The python dict.                                                        *)
(***************************************************************************)
Has(c, k) == \E i \in 1..Len(c) : c[i][1] = k
Idx(c, k) == CHOOSE i \in 1..Len(c) : c[i][1] = k
Lookup(c, k) == c[Idx(c, k)][2]
KeysOf(c) == [i \in 1..Len(c) |-> c[i][1]]
ValuesOf(c) == [i \in 1..Len(c) |-> c[i][2]]
KeySet(c) == {c[i][1] : i \in 1..Len(c)}
SeqSet(s) == {s[i] : i \in 1..Len(s)}

\* d[k] = v: an existing key keeps its place, a new key goes last
DictSet(c, k, v) ==
    IF Has(c, k) THEN [c EXCEPT ![Idx(c, k)] = <<k, v>>]
    ELSE Append(c, <<k, v>>)

\* d.update(other)
RECURSIVE DictUpdate(_, _)
DictUpdate(c, other) ==
    IF other = <<>> THEN c
    ELSE DictUpdate(DictSet(c, Head(other)[1], Head(other)[2]), Tail(other))

\* del d[k], for a key that is stored
DictDel(c, k) == SelectSeq(c, LAMBDA p : p[1] # k)

(***************************************************************************)
(* Instances.  Every class of the family is a dataclass; an instance is    *)
(* the record of its fields (fields a class lacks keep a fixed value).     *)
(* The contents of a ChainDictionary is a list of Dictionary instances.    *)
(***************************************************************************)
Dictionary(contents, default_factory) ==
    [kind |-> "Dictionary", contents |-> contents,
     default_factory |-> default_factory, default |-> NoArg,
     always_return_list |-> FALSE, return_first |-> FALSE,
     overwrite |-> FALSE]

Catalog(contents, default_factory, default, always_return_list) ==
    [kind |-> "Catalog", contents |-> contents,
     default_factory |-> default_factory, default |-> default,
     always_return_list |-> always_return_list, return_first |-> FALSE,
     overwrite |-> FALSE]

ChainDictionary(contents, default_factory, return_first) ==
    [kind |-> "ChainDictionary", contents |-> contents,
     default_factory |-> default_factory, default |-> NoArg,
     always_return_list |-> FALSE, return_first |-> return_first,
     overwrite |-> FALSE]

Repository(contents, default_factory, overwrite) ==
    [kind |-> "Repository", contents |-> contents,
     default_factory |-> default_factory, default |-> NoArg,
     always_return_list |-> FALSE, return_first |-> FALSE,
     overwrite |-> overwrite]

\* what a method hands back: the instance as the call left it, and the outcome
Done(self, ret) == [self |-> self, ret |-> ret]

(***************************************************************************)
(* __getitem__                                                             *)
(***************************************************************************)
\* Dictionary.__getitem__: self.contents[key]; a list is unhashable
Dictionary_getitem(self, key) ==
    IF key.t = "list" THEN Raise("TypeError")
    ELSE IF Has(self.contents, key.s) THEN Ok(Lookup(self.contents, key.s))
    ELSE Raise("KeyError")

\* a default_factory that is never called
FromFactory_uncalled(default_factory) == default_factory

\* default_factory() if that can be called, else default_factory itself
FromFactory(default_factory) ==
    IF default_factory \in Callables THEN Call(default_factory)
    ELSE default_factory

\* python's recursion limit, scaled down
RecursionLimit == 3

\* the values of the keys of a list that are stored, in the order they are
\* stored in
Matching_stored_order(c, ks) ==
    ValuesOf(SelectSeq(c, LAMBDA p : p[1] \in SeqSet(ks)))

\* the values of the keys of a list that are stored, in the list's order
RECURSIVE Matching(_, _)
Matching(c, ks) ==
    IF ks = <<>> THEN <<>>
    ELSE IF Has(c, Head(ks)) THEN <<Lookup(c, Head(ks))>> \o Matching(c, Tail(ks))
    ELSE Matching(c, Tail(ks))

RECURSIVE Catalog_getitem_at(_, _, _)
Catalog_getitem_at(self, key, depth) ==
    IF depth > RecursionLimit THEN Raise("RecursionError")
    ELSE IF key \in _ALL_KEYS THEN OkList(ValuesOf(self.contents))
    ELSE IF key \in _DEFAULT_KEYS
        THEN Catalog_getitem_at(self, self.default, depth + 1)
    ELSE IF key \in _NONE_KEYS THEN
        IF self.default_factory = PyNone THEN
            IF self.always_return_list THEN OkList(<<>>) ELSE Ok(PyNone)
        ELSE Ok(FromFactory(self.default_factory))
    ELSE IF key.t = "list" THEN OkList(Matching(self.contents, key.l))
    ELSE IF Has(self.contents, key.s) THEN
        IF self.always_return_list
            THEN OkList(<<Lookup(self.contents, key.s)>>)
            ELSE Ok(Lookup(self.contents, key.s))
    ELSE Raise("KeyError")

\* a lookup that takes 'all' for a key like any other
Catalog_getitem_no_all(self, key) ==
    IF key \in _ALL_KEYS THEN Raise("KeyError")
    ELSE Catalog_getitem_at(self, key, 0)

\* a lookup whose 'default' is always 'all'
Catalog_getitem_default_all(self, key) ==
    IF key \in _DEFAULT_KEYS THEN Catalog_getitem_at(self, Str("all"), 0)
    ELSE Catalog_getitem_at(self, key, 0)

\* a lookup whose 'none' overlooks default_factory
Catalog_getitem_none_empty(self, key) ==
    IF key \in _NONE_KEYS
        THEN IF self.always_return_list THEN OkList(<<>>) ELSE Ok(PyNone)
    ELSE Catalog_getitem_at(self, key, 0)

\* a lookup that tries the key as a stored key before the wildcard keys
Catalog_getitem_stored_first(self, key) ==
    IF key.t = "str" /\ Has(self.contents, key.s)
        THEN IF self.always_return_list
                THEN OkList(<<Lookup(self.contents, key.s)>>)
                ELSE Ok(Lookup(self.contents, key.s))
    ELSE Catalog_getitem_at(self, key, 0)

\* Catalog.__getitem__
Catalog_getitem(self, key) == Catalog_getitem_at(self, key, 0)

\* the values dictionary[key] yields over the layers, in layer order
RECURSIVE ChainMatches(_, _)
ChainMatches(layers, key) ==
    IF layers = <<>> THEN <<>>
    ELSE IF Dictionary_getitem(Head(layers), key).err = "none"
        THEN <<Dictionary_getitem(Head(layers), key).v>>
             \o ChainMatches(Tail(layers), key)
    ELSE ChainMatches(Tail(layers), key)

\* a lookup that returns what the last layer holding the key stores
ChainDictionary_getitem_last(self, key) ==
    IF key.t = "list" /\ self.contents # <<>> THEN Raise("TypeError")
    ELSE LET matches == ChainMatches(self.contents, key) IN
        IF Len(matches) = 0 THEN Raise("KeyError")
        ELSE Ok(matches[Len(matches)])

\* ChainDictionary.__getitem__
ChainDictionary_getitem(self, key) ==
    IF key.t = "list" /\ self.contents # <<>> THEN Raise("TypeError")
    ELSE LET matches == ChainMatches(self.contents, key) IN
        IF self.return_first /\ matches # <<>> THEN Ok(matches[1])
        ELSE IF Len(matches) = 0 THEN Raise("KeyError")
        ELSE IF Len(matches) > 1 THEN Ok(matches[1])
        ELSE OkList(matches)

\* self[key]
GetItem(self, key) ==
    CASE self.kind = "Catalog" -> Catalog_getitem(self, key)
      [] self.kind = "ChainDictionary" -> ChainDictionary_getitem(self, key)
      [] OTHER -> Dictionary_getitem(self, key)

(***************************************************************************)
(* Dictionary.get, Dictionary.setdefault                                   *)
(***************************************************************************)
\* a get that overlooks the default argument
Dictionary_get_no_default(self, key, default) ==
    LET r == GetItem(self, key) IN
    IF r.err \in {"KeyError", "TypeError"} THEN
        IF self.default_factory = PyNone THEN Done(self, Raise("KeyError"))
        ELSE Done(self, Ok(FromFactory(self.default_factory)))
    ELSE Done(self, r)

Dictionary_get(self, key, default) ==
    LET r == GetItem(self, key) IN
    IF r.err \in {"KeyError", "TypeError"} THEN
        IF default = PyNone THEN
            IF self.default_factory = PyNone THEN Done(self, Raise("KeyError"))
            ELSE Done(self, Ok(FromFactory(self.default_factory)))
        ELSE Done(self, Ok(default))
    ELSE Done(self, r)

Dictionary_setdefault(self, value) ==
    Done([self EXCEPT !.default_factory = value], Ok(PyNone))

(***************************************************************************)
(* Helpers of the repository whose source is not part of src/.             *)
(***************************************************************************)
\* convert.iterify: a str is one item, a list is its items
iterify(item) == IF item.t = "list" THEN item.l ELSE <<item.s>>

(***************************************************************************)
(* add                                                                     *)
(***************************************************************************)
\* an add that keeps the value of a key already stored
Dictionary_add_keep(self, item) ==
    Done([self EXCEPT !.contents =
              DictUpdate(item, self.contents)], Ok(PyNone))

\* Dictionary.add: self.contents.update(item)
Dictionary_add(self, item) ==
    Done([self EXCEPT !.contents = DictUpdate(self.contents, item)], Ok(PyNone))

\* ChainDictionary.add: self.contents.append(item)
ChainDictionary_add(self, item) ==
    Done([self EXCEPT !.contents = Append(self.contents, item)], Ok(PyNone))

\* ChainDictionary.new_child: self.contents.insert(0, m)
ChainDictionary_new_child(self, child) ==
    Done([self EXCEPT !.contents = <<child>> \o self.contents], Ok(PyNone))

\* a parents that takes the first layer off the chain it is called on
ChainDictionary_parents_popping(self) ==
    LET rest == IF self.contents = <<>> THEN <<>> ELSE Tail(self.contents)
    IN Done([self EXCEPT !.contents = rest],
            OkInst(ChainDictionary(rest, self.default_factory, TRUE)))

\* ChainDictionary.parents: self.__class__(self.contents[1:],
\* default_factory = self.default_factory); return_first is not passed on and
\* takes its default
ChainDictionary_parents(self) ==
    LET rest == IF self.contents = <<>> THEN <<>> ELSE Tail(self.contents)
    IN Done(self, OkInst(ChainDictionary(rest, self.default_factory, TRUE)))

\* label.namify of a str: the str itself
namify(item) == item

\* modify.uniquify: the key with the suffixes _2, _3, ... it is tried with
Suffixed(key) ==
    CASE key = "a" -> <<"a", "a_2", "a_3", "a_4">>
      [] key = "x" -> <<"x", "x_2", "x_3", "x_4">>
      [] key = "y" -> <<"y", "y_2", "y_3", "y_4">>
      [] OTHER -> <<key>>

\* modify.uniquify: the first of key, key_2, key_3, ... that is not a key of
\* the dictionary
uniquify(key, dictionary) ==
    LET tries == Suffixed(key)
        free == {i \in 1..Len(tries) : ~Has(dictionary.contents, tries[i])}
    IN tries[CHOOSE i \in free : \A j \in free : i <= j]

\* a key that python takes for false: None, the empty str, the empty list
Falsy(key) == key = NoArg \/ key = Str("") \/ key = List(<<>>)

\* an add that stores under the key as it is, whatever overwrite says
Repository_add_overwriting(self, item, key) ==
    IF ~Falsy(key) /\ key.t = "list" THEN Done(self, Raise("TypeError"))
    ELSE LET named == IF Falsy(key) THEN namify(item) ELSE key.s
    IN Done([self EXCEPT !.contents = DictUpdate(self.contents, <<<<named, item>>>>)],
            Ok(PyNone))

\* Repository.add: key = key or self._get_name(item), so the key given
\* unless it is false and then the name of the item; made unique unless
\* overwrite is set.  A list that is not empty cannot be a key.
Repository_add(self, item, key) ==
    IF ~Falsy(key) /\ key.t = "list" THEN Done(self, Raise("TypeError"))
    ELSE LET named == IF Falsy(key) THEN namify(item) ELSE key.s
             final == IF ~self.overwrite THEN uniquify(named, self) ELSE named
    IN Done([self EXCEPT !.contents = DictUpdate(self.contents, <<<<final, item>>>>)],
            Ok(PyNone))

\* ChainDictionary.maps, set: self.contents = value
ChainDictionary_maps_set(self, value) ==
    Done([self EXCEPT !.contents = value], Ok(PyNone))

\* ChainDictionary.maps, deleted: self.contents = []
ChainDictionary_maps_del(self) ==
    Done([self EXCEPT !.contents = <<>>], Ok(PyNone))

(***************************************************************************)
(* delete, and __delitem__ which calls it                                  *)
(***************************************************************************)
\* a delete that passes over a key that is not stored
Dictionary_delete_silent(self, item) ==
    IF item.t = "list" THEN Done(self, Raise("TypeError"))
    ELSE Done([self EXCEPT !.contents = DictDel(self.contents, item.s)], Ok(PyNone))

\* Dictionary.delete: del self.contents[item]
Dictionary_delete(self, item) ==
    IF item.t = "list" THEN Done(self, Raise("TypeError"))
    ELSE IF Has(self.contents, item.s)
        THEN Done([self EXCEPT !.contents = DictDel(self.contents, item.s)],
                  Ok(PyNone))
    ELSE Done(self, Raise("KeyError"))

PyTrue == "True"
PyFalse == "False"

\* key in self, which is Mapping.__contains__: self[key] is tried, KeyError
\* is False, any other exception goes on to the caller
Mapping_contains(self, key) ==
    LET r == GetItem(self, key) IN
    IF r.err = "none" THEN Ok(PyTrue)
    ELSE IF r.err = "KeyError" THEN Ok(PyFalse)
    ELSE Raise(r.err)

\* Mapping.__contains__, which the classes inherit: self[key] does not raise
\* KeyError.  The outcome of the first key of ks for which self[key] raises.
RECURSIVE FirstRaise(_, _)
FirstRaise(self, ks) ==
    IF ks = <<>> THEN "none"
    ELSE IF GetItem(self, Str(Head(ks))).err # "none"
        THEN GetItem(self, Str(Head(ks))).err
    ELSE FirstRaise(self, Tail(ks))

Catalog_delete(self, item) ==
    LET keys == iterify(item)
        e == FirstRaise(self, keys) IN
    IF e = "none" THEN
        Done([self EXCEPT !.contents =
                  SelectSeq(self.contents, LAMBDA p : p[1] \notin SeqSet(keys))],
             Ok(PyNone))
    ELSE IF e = "KeyError" THEN Done(self, Raise("KeyError"))
    ELSE Done(self, Raise(e))

\* ChainDictionary.delete: del dictionary[item] in every layer, KeyError
\* suppressed
RECURSIVE ChainDeleteLayers(_, _)
ChainDeleteLayers(layers, item) ==
    IF layers = <<>> THEN <<>>
    ELSE <<Dictionary_delete(Head(layers), item).self>>
         \o ChainDeleteLayers(Tail(layers), item)

\* a delete that stops at the first layer
ChainDictionary_delete_first(self, item) ==
    IF item.t = "list" /\ self.contents # <<>> THEN Done(self, Raise("TypeError"))
    ELSE IF self.contents = <<>> THEN Done(self, Ok(PyNone))
    ELSE Done([self EXCEPT !.contents[1] =
                   Dictionary_delete(self.contents[1], item).self], Ok(PyNone))

\* ChainDictionary.delete
ChainDictionary_delete(self, item) ==
    IF item.t = "list" /\ self.contents # <<>> THEN Done(self, Raise("TypeError"))
    ELSE Done([self EXCEPT !.contents = ChainDeleteLayers(self.contents, item)],
              Ok(PyNone))

\* self.delete(item), as Bunch.__delitem__ calls it
Delete(self, item) ==
    CASE self.kind = "Catalog" -> Catalog_delete(self, item)
      [] self.kind = "ChainDictionary" -> ChainDictionary_delete(self, item)
      [] OTHER -> Dictionary_delete(self, item)

\* Bunch.__delitem__: self.delete(item = item); return self
Bunch_delitem(self, item) ==
    LET r == Delete(self, item)
    IN IF r.ret.err = "none" THEN Done(r.self, OkInst(r.self)) ELSE r

\* Bunch.__add__: self.add(item = other), the add of the class of self with
\* no other argument; return self
Bunch_add(self, other) ==
    LET r == CASE self.kind = "ChainDictionary" -> ChainDictionary_add(self, other)
               [] self.kind = "Repository" -> Repository_add(self, other, NoArg)
               [] OTHER -> Dictionary_add(self, other)
    IN IF r.ret.err = "none" THEN Done(r.self, OkInst(r.self)) ELSE r

\* Bunch.__iadd__: self.add(item = other); return self
Bunch_iadd(self, other) ==
    LET r == CASE self.kind = "ChainDictionary" -> ChainDictionary_add(self, other)
               [] self.kind = "Repository" -> Repository_add(self, other, NoArg)
               [] OTHER -> Dictionary_add(self, other)
    IN IF r.ret.err = "none" THEN Done(r.self, OkInst(r.self)) ELSE r

\* the statement del obj[item]: what __delitem__ returns is thrown away, what
\* it raises is raised
Del_statement(self, item) ==
    LET r == Bunch_delitem(self, item)
    IN IF r.ret.err = "none" THEN Done(r.self, Ok(PyNone)) ELSE r

(***************************************************************************)
(* __setitem__                                                             *)
(***************************************************************************)
\* dict(zip(key, value)): pairs up to the shorter of the two;
\* the later of two equal keys of zip(key, value) gives the value, the first
\* gives the place
RECURSIVE ZipDict(_, _, _)
ZipDict(acc, ks, vs) ==
    IF ks = <<>> \/ vs = <<>> THEN acc
    ELSE ZipDict(DictSet(acc, Head(ks), Head(vs)), Tail(ks), Tail(vs))

\* Dictionary.__setitem__: self.contents[key] = value
Dictionary_setitem(self, key, value, values) ==
    IF key.t = "list" THEN Done(self, Raise("TypeError"))
    ELSE Done([self EXCEPT !.contents = DictSet(self.contents, key.s, value)],
              Ok(PyNone))

\* Catalog.__setitem__: a list of keys is unhashable, and is zipped
Catalog_setitem(self, key, value, values) ==
    IF key.t = "list" THEN
        Done([self EXCEPT !.contents =
                  DictUpdate(self.contents, ZipDict(<<>>, key.l, values))],
             Ok(PyNone))
    ELSE Done([self EXCEPT !.contents = DictSet(self.contents, key.s, value)],
              Ok(PyNone))

\* an index set that writes into the last layer
ChainDictionary_setitem_last(self, key, value, values) ==
    IF key.t = "list" THEN Done(self, Raise("TypeError"))
    ELSE IF Len(self.contents) = 0 THEN
        Done([self EXCEPT !.contents =
                  <<Dictionary(<<<<key.s, value>>>>, PyNone)>>], Ok(PyNone))
    ELSE Done([self EXCEPT !.contents[Len(self.contents)].contents =
                   DictSet(self.contents[Len(self.contents)].contents,
                           key.s, value)],
              Ok(PyNone))

\* ChainDictionary.__setitem__: into the first layer, made if there is none
ChainDictionary_setitem(self, key, value, values) ==
    IF key.t = "list" THEN Done(self, Raise("TypeError"))
    ELSE IF Len(self.contents) = 0 THEN
        Done([self EXCEPT !.contents =
                  <<Dictionary(<<<<key.s, value>>>>, PyNone)>>], Ok(PyNone))
    ELSE Done([self EXCEPT !.contents[1].contents =
                   DictSet(self.contents[1].contents, key.s, value)],
              Ok(PyNone))

\* self[key] = value
SetItem(self, key, value, values) ==
    CASE self.kind = "Catalog" -> Catalog_setitem(self, key, value, values)
      [] self.kind = "ChainDictionary" ->
            ChainDictionary_setitem(self, key, value, values)
      [] OTHER -> Dictionary_setitem(self, key, value, values)

(***************************************************************************)
(* keys, values, items.  What a call returns is a python object: a tuple,  *)
(* which holds its own elements, or a view, whose elements are those of    *)
(* the dict it was taken from at the time it is read.                      *)
(***************************************************************************)
Tuple(what, elems) == [what |-> what, live |-> FALSE, elems |-> elems]
View(what) == [what |-> what, live |-> TRUE, elems |-> <<>>]
NoSnap == [what |-> "none", live |-> FALSE, elems |-> <<>>]

RECURSIVE ChainKeys(_)
ChainKeys(layers) ==
    IF layers = <<>> THEN <<>>
    ELSE KeysOf(Head(layers).contents) \o ChainKeys(Tail(layers))

RECURSIVE ChainValues(_)
ChainValues(layers) ==
    IF layers = <<>> THEN <<>>
    ELSE ValuesOf(Head(layers).contents) \o ChainValues(Tail(layers))

\* tuple(zip(a, b))
ZipTuple(a, b) ==
    [i \in 1..(IF Len(a) < Len(b) THEN Len(a) ELSE Len(b)) |-> <<a[i], b[i]>>]

\* the elements of a returned object when read with the instance as it is now
Elems(obj, self) ==
    IF ~obj.live THEN obj.elems
    ELSE LET ks == IF self.kind = "ChainDictionary"
                   THEN ChainKeys(self.contents) ELSE KeysOf(self.contents)
             vs == IF self.kind = "ChainDictionary"
                   THEN ChainValues(self.contents) ELSE ValuesOf(self.contents)
         IN CASE obj.what = "keys" -> ks
              [] obj.what = "values" -> vs
              [] OTHER -> ZipTuple(ks, vs)

\* keys() that returns the dict's own view
Dictionary_keys_view(self) == View("keys")

\* Dictionary.keys: tuple(self.contents.keys())
Dictionary_keys(self) == Tuple("keys", KeysOf(self.contents))
\* Dictionary.values: tuple(self.contents.values())
Dictionary_values(self) == Tuple("values", ValuesOf(self.contents))
\* keys() that lists a key of several layers once
ChainDictionary_keys_unique(self) ==
    LET ks == ChainKeys(self.contents)
    IN Tuple("keys", SelectSeq([i \in 1..Len(ks) |-> <<i, ks[i]>>],
                        LAMBDA p : \A j \in 1..(p[1] - 1) : ks[j] # p[2]))

\* ChainDictionary.keys, ChainDictionary.values: the layers' tuples chained
ChainDictionary_keys(self) == Tuple("keys", ChainKeys(self.contents))
ChainDictionary_values(self) == Tuple("values", ChainValues(self.contents))

\* self.keys(), self.values()
Keys(self) ==
    IF self.kind = "ChainDictionary" THEN ChainDictionary_keys(self)
    ELSE Dictionary_keys(self)
Values(self) ==
    IF self.kind = "ChainDictionary" THEN ChainDictionary_values(self)
    ELSE Dictionary_values(self)

\* Dictionary.items and ChainDictionary.items:
\* tuple(zip(self.keys(), self.values()))
Dictionary_items(self) ==
    Tuple("items", ZipTuple(Elems(Keys(self), self), Elems(Values(self), self)))

(***************************************************************************)
(* copy.deepcopy of a dict: every mutable value is copied into a new       *)
(* object, once (the memo), and immutable values are kept.                 *)
(***************************************************************************)
Fresh(h) ==
    RefOrder[CHOOSE i \in 1..Len(RefOrder) :
                /\ h[RefOrder[i]] = "free"
                /\ \A j \in 1..(i - 1) : h[RefOrder[j]] # "free"]

RECURSIVE DeepCopyDict(_, _, _, _)
DeepCopyDict(c, acc, h, memo) ==
    IF c = <<>> THEN [contents |-> acc, heap |-> h]
    ELSE LET k == Head(c)[1]
             v == Head(c)[2] IN
        IF v \notin Refs
            THEN DeepCopyDict(Tail(c), Append(acc, <<k, v>>), h, memo)
        ELSE IF Has(memo, v)
            THEN DeepCopyDict(Tail(c), Append(acc, <<k, Lookup(memo, v)>>), h, memo)
        ELSE DeepCopyDict(Tail(c), Append(acc, <<k, Fresh(h)>>),
                          [h EXCEPT ![Fresh(h)] = h[v]],
                          DictSet(memo, v, Fresh(h)))

deepcopy(c, h) == DeepCopyDict(c, <<>>, h, <<>>)

(***************************************************************************)
(* subset.  A call hands back the instance, the outcome and the heap.      *)
(***************************************************************************)
Handed(self, ret, h) == [self |-> self, ret |-> ret, heap |-> h]

\* {k: self.contents[k] for k in include}, for keys that are all stored
RECURSIVE Pick(_, _, _)
Pick(c, ks, acc) ==
    IF ks = <<>> THEN acc
    ELSE Pick(c, Tail(ks), DictSet(acc, Head(ks), Lookup(c, Head(ks))))

\* an exclude that is not applied
Without_nothing(c, exclude) == c

\* {k: v for k, v in contents.items() if k not in exclude}
Without(c, exclude) == SelectSeq(c, LAMBDA p : p[1] \notin SeqSet(exclude))

\* the dict of the new instance, for keys of include that are all stored
SubsetContents(self, include, exclude, h) ==
    LET first == IF include = NoArg THEN deepcopy(self.contents, h)
                 ELSE [contents |-> Pick(self.contents, iterify(include), <<>>),
                       heap |-> h]
    IN [contents |-> IF exclude # NoArg
                     THEN Without(first.contents, iterify(exclude))
                     ELSE first.contents,
        heap |-> first.heap]

\* a subset that narrows the instance it is called on, too
Dictionary_subset_in_place(self, include, exclude, h) ==
    IF include = NoArg /\ exclude = NoArg THEN Handed(self, Raise("ValueError"), h)
    ELSE IF include # NoArg
            /\ \E i \in 1..Len(iterify(include)) :
                   ~Has(self.contents, iterify(include)[i])
        THEN Handed(self, Raise("KeyError"), h)
    ELSE LET new == SubsetContents(self, include, exclude, h) IN
         Handed([self EXCEPT !.contents = new.contents],
                OkInst([self EXCEPT !.contents = new.contents]), new.heap)

\* Dictionary.subset; new_dictionary is copy.deepcopy(self) with the new dict
\* as its contents
Dictionary_subset(self, include, exclude, h) ==
    IF include = NoArg /\ exclude = NoArg THEN Handed(self, Raise("ValueError"), h)
    ELSE IF include # NoArg
            /\ \E i \in 1..Len(iterify(include)) :
                   ~Has(self.contents, iterify(include)[i])
        THEN Handed(self, Raise("KeyError"), h)
    ELSE LET new == SubsetContents(self, include, exclude, h) IN
         Handed(self, OkInst([self EXCEPT !.contents = new.contents]), new.heap)

\* the layers' subsets, in layer order, up to the first that raises
RECURSIVE ChainSubsetLayers(_, _, _, _, _)
ChainSubsetLayers(layers, include, exclude, h, acc) ==
    IF layers = <<>> THEN [layers |-> acc, err |-> "none", heap |-> h]
    ELSE LET r == Dictionary_subset(Head(layers), include, exclude, h) IN
        IF r.ret.err # "none" THEN [layers |-> acc, err |-> r.ret.err, heap |-> h]
        ELSE ChainSubsetLayers(Tail(layers), include, exclude, r.heap,
                               Append(acc, r.ret.inst))

ChainDictionary_subset(self, include, exclude, h) ==
    LET r == ChainSubsetLayers(self.contents, include, exclude, h, <<>>) IN
    IF r.err # "none" THEN Handed(self, Raise(r.err), h)
    ELSE Handed(self, OkInst([self EXCEPT !.contents = r.layers]), r.heap)

\* self.subset(include, exclude)
SubsetOf(self, include, exclude, h) ==
    IF self.kind = "ChainDictionary"
        THEN ChainDictionary_subset(self, include, exclude, h)
        ELSE Dictionary_subset(self, include, exclude, h)

(***************************************************************************)
(* The instances and arguments the model draws from.                       *)
(***************************************************************************)
StoreKeys == {"a", "b", "c"}
LayerKeys == {"a", "b"}
Factories == {PyNone, "z", Producer}
Defaults == {PyNone, "d"}
CatalogDefaults == {Str("all"), Str("a"), List(<<"a", "b">>)}

\* the dicts of at most n entries over the given keys and values
Dicts(keys, vals, n) ==
    {c \in UNION {[1..k -> keys \X vals] : k \in 0..n} :
        \A i, j \in 1..Len(c) : c[i][1] = c[j][1] => i = j}

Contents == Dicts(StoreKeys, Lits, MaxLen)
PlainContents == Dicts(LayerKeys, {"x"}, MaxLayerLen)
PlainLayers == {Dictionary(c, PyNone) : c \in PlainContents}
PlainLayerLists == UNION {[1..n -> PlainLayers] : n \in 0..MaxLayers}

Instances ==
    {Dictionary(c, f) : c \in Contents, f \in Factories}
    \cup {Catalog(c, f, d, a) : c \in Contents, f \in Factories,
                                d \in CatalogDefaults, a \in BOOLEAN}
    \cup {ChainDictionary(l, f, r) : l \in PlainLayerLists, f \in Factories,
                                     r \in BOOLEAN}
    \cup {Repository(c, f, o) : c \in Contents, f \in Factories, o \in BOOLEAN}

LookupKeys ==
    {Str(k) : k \in StoreKeys \cup {"all", "default", "none"}}
    \cup {List(<<"a">>), List(<<"b", "a">>), List(<<"none">>)}

\* the record of a call
Called(op, key, exclude, value, item, ret) ==
    [op |-> op, key |-> key, exclude |-> exclude, value |-> value,
     item |-> item, ret |-> ret]
NoCall == Called("none", NoArg, NoArg, PyNone, <<>>, Ok(PyNone))

\* key is stored in the instance (for a ChainDictionary: in one of its layers)
Stored(self, k) ==
    IF self.kind = "ChainDictionary"
        THEN \E i \in 1..Len(self.contents) : Has(self.contents[i].contents, k)
        ELSE Has(self.contents, k)

(***************************************************************************)
(* Lookups with a default: get and setdefault on an instance of any class. *)
(***************************************************************************)
InitGet ==
    /\ m \in Instances
    /\ sub = NoInst
    /\ heap = [r \in Refs |-> "free"]
    /\ snap = NoSnap
    /\ last = NoCall

\* m.get(key, default)
Get(key, default) ==
    \E r \in {Dictionary_get(m, key, default)} :
        /\ m' = r.self
        /\ last' = Called("get", key, NoArg, default, <<>>, r.ret)
        /\ UNCHANGED <<sub, heap, snap>>

\* m.setdefault(value)
SetDefault(value) ==
    \E r \in {Dictionary_setdefault(m, value)} :
        /\ m' = r.self
        /\ last' = Called("setdefault", NoArg, NoArg, value, <<>>, r.ret)
        /\ UNCHANGED <<sub, heap, snap>>

NextGet ==
    \/ \E key \in LookupKeys, default \in Defaults : Get(key, default)
    \/ \E value \in Factories : SetDefault(value)

SpecGet == InitGet /\ [][NextGet]_vars

(***************************************************************************)
(* Claims about get and setdefault (under SpecGet).                        *)
(***************************************************************************)
\* a wildcard key of Catalog.__getitem__
Wildcard(key) == key \in _ALL_KEYS \cup _DEFAULT_KEYS \cup _NONE_KEYS

\* the key of a call is stored in the instance; a list cannot be hashed, so
\* that no dict stores one
StoredKey(self, key) == key.t = "str" /\ Stored(self, key.s)

\* the last call was get with a key, str or list, that is not stored
GetMiss == last.op = "get" /\ ~StoredKey(m, last.key)

\* C1 as stated: for every instance of the family, every key that is not
\* stored and every default d handed to get (None as any other),
\* get(k, default = d) returns d.
C1_AsStated == GetMiss => last.ret = Ok(last.value)

\* C1, amended: get(k, default = d) returns d and leaves the instance as it
\* was, for a key, str or list, that is not stored and a default other than
\* None, unless the instance is a Catalog and k is one of its wildcard keys
\* or a non-str sequence of keys.
C1_GetReturnsDefault ==
    /\ [](GetMiss /\ last.value # PyNone
            /\ ~(m.kind = "Catalog"
                    /\ (Wildcard(last.key) \/ last.key.t = "list"))
            => last.ret = Ok(last.value))
    /\ [][last'.op = "get" => m' = m]_vars

\* get(k, default = 'd') returns 'd' on a ChainDictionary with layers and a
\* default_factory, none of whose layers stores k
C1_Witness ==
    /\ GetMiss /\ last.value # PyNone
    /\ m.kind = "ChainDictionary"
    /\ m.contents # <<>>
    /\ m.default_factory # PyNone
    /\ last.ret = Ok("d")

\* C2: on a Dictionary, get(key) without a default returns the stored value of
\* a stored key; on a miss it returns default_factory() when default_factory
\* is a producer, default_factory itself when it is another value, and raises
\* KeyError when default_factory is None.  setdefault(value) makes value the
\* default_factory, so that later misses return by it, and keeps the contents.
C2_GetWithoutDefault ==
    /\ [](m.kind = "Dictionary" /\ last.op = "get" /\ last.key.t = "str"
          /\ last.value = PyNone
            => last.ret =
                IF Has(m.contents, last.key.s)
                    THEN Ok(Lookup(m.contents, last.key.s))
                ELSE IF m.default_factory = Producer THEN Ok(Produced)
                ELSE IF m.default_factory # PyNone THEN Ok(m.default_factory)
                ELSE Raise("KeyError"))
    /\ [][last'.op = "setdefault"
            => /\ m'.default_factory = last'.value
               /\ m'.contents = m.contents
               /\ m'.kind = m.kind]_vars

C2_Witness ==
    /\ m.kind = "Dictionary"
    /\ last.op = "get"
    /\ last.value = PyNone
    /\ ~Has(m.contents, last.key.s)
    /\ m.default_factory = Producer
    /\ last.ret = Ok(Produced)

(***************************************************************************)
(* subset, and what the caller then does with the instance it got: the     *)
(* values of an instance may be mutable objects here.                      *)
(***************************************************************************)
\* the mutable objects an instance holds
RefsOf(self) ==
    IF self.kind = "ChainDictionary"
        THEN UNION {SeqSet(ValuesOf(self.contents[i].contents)) \cap Refs :
                        i \in 1..Len(self.contents)}
        ELSE SeqSet(ValuesOf(self.contents)) \cap Refs

\* python frees an object that nothing refers to any more
Collect(h, a, b) ==
    [r \in Refs |-> IF r \in RefsOf(a) \cup RefsOf(b) THEN h[r] ELSE "free"]

\* what the lookups of an instance show: every key with its value and, for a
\* mutable value, the state of that object
Shown(c, h) ==
    [i \in 1..Len(c) |->
        <<c[i][1], c[i][2], IF c[i][2] \in Refs THEN h[c[i][2]] ELSE "-">>]
ViewOf(self, h) ==
    IF self.kind = "ChainDictionary"
        THEN [i \in 1..Len(self.contents) |-> Shown(self.contents[i].contents, h)]
        ELSE Shown(self.contents, h)

\* objects are named in the order in which a dict first holds them
FirstAt(c, r) == CHOOSE i \in 1..Len(c) : c[i][2] = r /\ \A j \in 1..(i - 1) : c[j][2] # r
InOrder(c) ==
    \A i \in 1..Len(RefOrder) :
        RefOrder[i] \in SeqSet(ValuesOf(c)) /\ i > 1
            => /\ RefOrder[i - 1] \in SeqSet(ValuesOf(c))
               /\ FirstAt(c, RefOrder[i - 1]) < FirstAt(c, RefOrder[i])

HeldRefs == {RefOrder[i] : i \in 1..MaxLen}
HeldContents ==
    {c \in Dicts(StoreKeys, {"x"} \cup HeldRefs, MaxLen) : InOrder(c)}

SubsetInstances ==
    {Dictionary(c, Producer) : c \in HeldContents}
    \cup {Catalog(c, PyNone, Str("a"), TRUE) : c \in PlainContents}
    \cup {Repository(c, PyNone, TRUE) : c \in PlainContents}
    \cup {ChainDictionary(l, "z", FALSE) : l \in PlainLayerLists}

IncludeArgs == {NoArg, Str("a"), List(<<"a", "b">>), List(<<"b", "c">>)}
ExcludeArgs == {NoArg, Str("a"), List(<<"b", "c">>)}

InitSubset ==
    /\ m \in SubsetInstances
    /\ sub = NoInst
    /\ heap = [r \in Refs |-> IF r \in RefsOf(m) THEN "s0" ELSE "free"]
    /\ snap = NoSnap
    /\ last = NoCall

\* sub = m.subset(include, exclude); sub is not bound when the call raises
Subset(include, exclude) ==
    \E r \in {SubsetOf(m, include, exclude, Collect(heap, m, NoInst))} :
        /\ m' = r.self
        /\ sub' = IF r.ret.err = "none" THEN r.ret.inst ELSE sub
        /\ heap' = IF r.ret.err = "none" THEN Collect(r.heap, m', sub') ELSE heap
        /\ last' = Called("subset", include, exclude, PyNone, <<>>, r.ret)
        /\ UNCHANGED snap

\* sub[key] = value
SubSetItem(key, value) ==
    /\ sub # NoInst
    /\ \E r \in {SetItem(sub, key, value, <<>>)} :
        /\ sub' = r.self
        /\ heap' = Collect(heap, m, sub')
        /\ last' = Called("sub.setitem", key, NoArg, value, <<>>, r.ret)
    /\ UNCHANGED <<m, snap>>

\* del sub[key]
SubDelItem(key) ==
    /\ sub # NoInst
    /\ \E r \in {Del_statement(sub, key)} :
        /\ sub' = r.self
        /\ heap' = Collect(heap, m, sub')
        /\ last' = Called("sub.delitem", key, NoArg, PyNone, <<>>, r.ret)
    /\ UNCHANGED <<m, snap>>

\* a change made to a mutable value that sub holds, as sub[key].append(...)
SubMutateValue(key) ==
    /\ sub # NoInst
    /\ sub.kind # "ChainDictionary"
    /\ Has(sub.contents, key)
    /\ Lookup(sub.contents, key) \in Refs
    /\ heap[Lookup(sub.contents, key)] = "s0"
    /\ heap' = [heap EXCEPT ![Lookup(sub.contents, key)] = "s1"]
    /\ last' = Called("sub.mutate", Str(key), NoArg, PyNone, <<>>, Ok(PyNone))
    /\ UNCHANGED <<m, sub, snap>>

NextSubset ==
    \/ \E include \in IncludeArgs, exclude \in ExcludeArgs : Subset(include, exclude)
    \/ SubSetItem(Str("a"), "y")
    \/ SubDelItem(Str("b"))
    \/ \E key \in StoreKeys : SubMutateValue(key)

SpecSubset == InitSubset /\ [][NextSubset]_vars

(***************************************************************************)
(* Claims about subset (under SpecSubset).                                 *)
(***************************************************************************)
\* C3 as stated: on an instance of any class of the family, a ChainDictionary
\* of no layers included, subset() with neither include nor exclude raises
\* ValueError and returns no instance.
C3_AsStated ==
    last.op = "subset" /\ last.key = NoArg /\ last.exclude = NoArg
        => last.ret = Raise("ValueError")

\* C4 as stated: on a Dictionary, subset(include = X) returns an instance
\* whose keys are exactly the keys of X that are stored, each with the value
\* the Dictionary stores for it, whether or not every key of X is stored.
C4_AsStated ==
    m.kind = "Dictionary" /\ last.op = "subset" /\ last.key # NoArg
    /\ last.exclude = NoArg
        => /\ last.ret.tag = "inst"
           /\ KeySet(last.ret.inst.contents)
                = SeqSet(iterify(last.key)) \cap KeySet(m.contents)
           /\ \A k \in KeySet(last.ret.inst.contents) :
                Lookup(last.ret.inst.contents, k) = Lookup(m.contents, k)

\* C5: on a Dictionary, the keys of subset(exclude = Y) are the keys of the
\* Dictionary that are not in Y, in their order; and when subset(include = X,
\* exclude = Y) returns, its keys are those of X without those of Y, so a key
\* in both is not among them.
C5_ExcludeAfterInclude ==
    m.kind = "Dictionary" /\ last.op = "subset" /\ last.exclude # NoArg
        => /\ last.key = NoArg
                => /\ last.ret.tag = "inst"
                   /\ KeysOf(last.ret.inst.contents)
                        = SelectSeq(KeysOf(m.contents),
                              LAMBDA k : k \notin SeqSet(iterify(last.exclude)))
           /\ last.key # NoArg /\ last.ret.tag = "inst"
                => KeySet(last.ret.inst.contents)
                        = (SeqSet(iterify(last.key)) \cap KeySet(m.contents))
                            \ SeqSet(iterify(last.exclude))

C5_Witness ==
    /\ m.kind = "Dictionary"
    /\ last.op = "subset"
    /\ last.key = List(<<"a", "b">>)
    /\ last.exclude = Str("a")
    /\ last.ret.tag = "inst"
    /\ KeysOf(last.ret.inst.contents) = <<"b">>

\* C6: subset leaves the instance it is called on as it was, its contents, its
\* other fields and the objects it holds, whether the call returns or raises.
C6_SubsetKeepsOriginal ==
    [][last'.op = "subset"
        => m' = m /\ ViewOf(m', heap') = ViewOf(m, heap)]_vars

C6_Witness ==
    /\ last.op = "subset"
    /\ m.kind = "ChainDictionary"
    /\ Len(m.contents) > 1
    /\ last.ret.tag = "inst"
    /\ last.ret.inst.contents # m.contents

\* C7 as stated: the instance subset returns shares no mutable state with the
\* original, with include given as with include omitted: whatever is done
\* through the returned instance, to its contents or to a mutable value it
\* holds, every lookup on the original shows what it showed before.
C7_AsStated ==
    [][last'.op \in {"sub.setitem", "sub.delitem", "sub.mutate"}
        => ViewOf(m', heap') = ViewOf(m, heap)]_vars

(***************************************************************************)
(* The containers in use: made empty, filled and emptied with add, index   *)
(* set and del, and read with keys(), values() and items().                *)
(***************************************************************************)
AddItems == Dicts(LayerKeys, Lits, MaxLen)
AddLayers == {Dictionary(c, PyNone) : c \in Dicts(LayerKeys, Lits, MaxLayerLen)}
SetKeys == {Str(k) : k \in StoreKeys} \cup {List(<<"a", "b">>)}
DelKeys == {Str(k) : k \in StoreKeys \cup {"all"}} \cup {List(<<"a", "b">>)}

\* the model holds no more than its bounds allow
Fits(self) ==
    IF self.kind = "ChainDictionary"
        THEN /\ Len(self.contents) <= MaxLayers
             /\ \A i \in 1..Len(self.contents) :
                    Len(self.contents[i].contents) <= MaxLayerLen
        ELSE Len(self.contents) <= MaxLen

Init ==
    /\ m \in {Dictionary(<<>>, PyNone), Catalog(<<>>, PyNone, Str("all"), FALSE),
              ChainDictionary(<<>>, PyNone, TRUE), Repository(<<>>, PyNone, FALSE),
              Repository(<<>>, PyNone, TRUE)}
    /\ sub = NoInst
    /\ heap = [r \in Refs |-> "free"]
    /\ snap = NoSnap
    /\ last = NoCall

\* m.add(item), for a mapping
Add(item) ==
    /\ m.kind \in {"Dictionary", "Catalog"}
    /\ \E r \in {Dictionary_add(m, item)} :
        /\ Fits(r.self)
        /\ m' = r.self
        /\ last' = Called("add", NoArg, NoArg, PyNone, item, r.ret)
    /\ UNCHANGED <<sub, heap, snap>>

\* m.add(item), for a Dictionary that becomes the last layer
AddLayer(item) ==
    /\ m.kind = "ChainDictionary"
    /\ \E r \in {ChainDictionary_add(m, item)} :
        /\ Fits(r.self)
        /\ m' = r.self
        /\ last' = Called("add", NoArg, NoArg, PyNone, item.contents, r.ret)
    /\ UNCHANGED <<sub, heap, snap>>

\* m + other: m is changed in place and is the value of the expression
Plus(other) ==
    /\ \E r \in {Bunch_add(m, other)} :
        /\ Fits(r.self)
        /\ m' = r.self
        /\ last' = Called("+", NoArg, NoArg, PyNone, <<>>, r.ret)
    /\ UNCHANGED <<sub, heap, snap>>

\* m += other: m is changed in place and bound anew to what __iadd__ returns
PlusAssign(other) ==
    /\ \E r \in {Bunch_iadd(m, other)} :
        /\ Fits(r.self)
        /\ m' = IF r.ret.err = "none" THEN r.ret.inst ELSE r.self
        /\ last' = Called("+=", NoArg, NoArg, PyNone, <<>>, r.ret)
    /\ UNCHANGED <<sub, heap, snap>>

\* m.maps = value
SetMaps(value) ==
    /\ m.kind = "ChainDictionary"
    /\ \E r \in {ChainDictionary_maps_set(m, value)} :
        /\ Fits(r.self)
        /\ m' = r.self
        /\ last' = Called("maps.set", NoArg, NoArg, PyNone, <<>>, r.ret)
    /\ UNCHANGED <<sub, heap, snap>>

\* del m.maps
DelMaps ==
    /\ m.kind = "ChainDictionary"
    /\ \E r \in {ChainDictionary_maps_del(m)} :
        /\ m' = r.self
        /\ last' = Called("maps.del", NoArg, NoArg, PyNone, <<>>, r.ret)
    /\ UNCHANGED <<sub, heap, snap>>

\* m.add(item, key), for an item to store
AddNamed(item, key) ==
    /\ m.kind = "Repository"
    /\ \E r \in {Repository_add(m, item, key)} :
        /\ Fits(r.self)
        /\ m' = r.self
        /\ last' = Called("add", key, NoArg, item, <<>>, r.ret)
    /\ UNCHANGED <<sub, heap, snap>>

\* del m[key]
DelItem(key) ==
    /\ \E r \in {Del_statement(m, key)} :
        /\ m' = r.self
        /\ last' = Called("delitem", key, NoArg, PyNone, <<>>, r.ret)
    /\ UNCHANGED <<sub, heap, snap>>

\* m[key] = value, or m[keys] = values
SetItemAt(key, value, values) ==
    /\ \E r \in {SetItem(m, key, value, values)} :
        /\ Fits(r.self)
        /\ m' = r.self
        /\ last' = Called("setitem", key, NoArg, value, values, r.ret)
    /\ UNCHANGED <<sub, heap, snap>>

\* snap = m.keys()
TakeKeys ==
    /\ snap' = Keys(m)
    /\ last' = Called("keys", NoArg, NoArg, PyNone, <<>>, Ok(PyNone))
    /\ UNCHANGED <<m, sub, heap>>

\* snap = m.values()
TakeValues ==
    /\ snap' = Values(m)
    /\ last' = Called("values", NoArg, NoArg, PyNone, <<>>, Ok(PyNone))
    /\ UNCHANGED <<m, sub, heap>>

\* snap = m.items()
TakeItems ==
    /\ snap' = Dictionary_items(m)
    /\ last' = Called("items", NoArg, NoArg, PyNone, <<>>, Ok(PyNone))
    /\ UNCHANGED <<m, sub, heap>>

Next ==
    \/ \E item \in AddItems : Add(item)
    \/ \E item \in AddLayers : AddLayer(item)
    \/ \E item \in Lits, key \in {NoArg, Str(""), Str("a")} : AddNamed(item, key)
    \/ \E other \in AddItems : m.kind \in {"Dictionary", "Catalog"} /\ Plus(other)
    \/ \E other \in AddLayers : m.kind = "ChainDictionary" /\ Plus(other)
    \/ \E other \in Lits : m.kind = "Repository" /\ Plus(other)
    \/ \E other \in AddItems :
            m.kind \in {"Dictionary", "Catalog"} /\ PlusAssign(other)
    \/ \E other \in AddLayers : m.kind = "ChainDictionary" /\ PlusAssign(other)
    \/ \E other \in Lits : m.kind = "Repository" /\ PlusAssign(other)
    \/ \E item \in AddLayers : SetMaps(<<item>>)
    \/ DelMaps
    \/ \E key \in DelKeys : DelItem(key)
    \/ \E key \in SetKeys, value \in Lits : key.t = "str" /\ SetItemAt(key, value, <<>>)
    \/ \E key \in SetKeys, values \in {<<"x", "y">>, <<"y">>} :
            key.t = "list" /\ SetItemAt(key, PyNone, values)

Spec == Init /\ [][Next]_vars

\* the keys of c that are not k, with the values they have in c, are so in d
OthersKept(c, d, k) ==
    \A j \in KeySet(c) \ k : Has(d, j) /\ Lookup(d, j) = Lookup(c, j)

\* C8: Dictionary.add(mapping) is a destructive union.  After the call every
\* key of mapping has mapping's value, every other key has the value it had,
\* the keys are those stored before and those of mapping, and the call
\* returns None.
C8_AddIsDestructiveUnion ==
    [][last'.op = "add" /\ m.kind \in {"Dictionary", "Catalog"}
        => /\ last'.ret = Ok(PyNone)
           /\ OthersKept(last'.item, m'.contents, {})
           /\ OthersKept(m.contents, m'.contents, KeySet(last'.item))
           /\ KeySet(m'.contents) = KeySet(m.contents) \cup KeySet(last'.item)
           /\ Len(m'.contents) = Cardinality(KeySet(m'.contents))]_vars

\* a key stored before the call was given a new value and a key that the
\* mapping does not have is still there
C8_Witness ==
    /\ last.op = "add" /\ m.kind = "Dictionary"
    /\ m.contents # <<>> /\ m.contents[1][1] \in KeySet(last.item)
    /\ KeySet(m.contents) \ KeySet(last.item) # {}

\* C9: Dictionary.delete(key), also as del d[key].  With a key that is not
\* stored it raises KeyError and the contents are as they were; with a stored
\* key it removes that key and every other key keeps its place and value.
C9_DeleteRemovesOnlyKey ==
    [][last'.op = "delitem" /\ m.kind \in {"Dictionary", "Repository"}
            /\ last'.key.t = "str"
        => IF Has(m.contents, last'.key.s)
            THEN /\ last'.ret = Ok(PyNone)
                 /\ KeySet(m'.contents) = KeySet(m.contents) \ {last'.key.s}
                 /\ OthersKept(m.contents, m'.contents, {last'.key.s})
                 /\ KeysOf(m'.contents)
                        = SelectSeq(KeysOf(m.contents), LAMBDA j : j # last'.key.s)
                 /\ m' = [m EXCEPT !.contents = m'.contents]
            ELSE last'.ret = Raise("KeyError") /\ m' = m]_vars

\* del of a key that is not stored, from a Dictionary that stores others
C9_Witness ==
    /\ last.op = "delitem" /\ m.kind = "Dictionary"
    /\ last.ret = Raise("KeyError") /\ m.contents # <<>>

(***************************************************************************)
(* A Dictionary that is read with keys(), values() and items() while it is *)
(* changed: the caller keeps what the last read returned.                  *)
(***************************************************************************)
InitSnap ==
    /\ m = Dictionary(<<>>, PyNone)
    /\ sub = NoInst
    /\ heap = [r \in Refs |-> "free"]
    /\ snap = NoSnap
    /\ last = NoCall

NextSnap ==
    \/ \E item \in AddItems : Add(item)
    \/ \E other \in AddItems : Plus(other)
    \/ \E other \in AddItems : PlusAssign(other)
    \/ \E key \in StoreKeys : DelItem(Str(key))
    \/ \E key \in StoreKeys, value \in Lits : SetItemAt(Str(key), value, <<>>)
    \/ TakeKeys
    \/ TakeValues
    \/ TakeItems

SpecSnap == InitSnap /\ [][NextSnap]_vars

\* C10: keys(), values() and items() return snapshots.  What the caller holds
\* reads the same after any add, del or index set, and items() has at place i
\* the pair of place i of keys() and place i of values().
C10_SnapshotsAreFixed ==
    /\ [][snap.what # "none" /\ snap' = snap
            => Elems(snap', m') = Elems(snap, m)]_vars
    /\ [](last.op = "items"
            => /\ Len(Elems(snap, m)) = Len(Elems(Keys(m), m))
               /\ Len(Elems(snap, m)) = Len(Elems(Values(m), m))
               /\ \A i \in 1..Len(Elems(snap, m)) :
                    Elems(snap, m)[i]
                        = <<Elems(Keys(m), m)[i], Elems(Values(m), m)[i]>>)

\* keys() was taken, and the Dictionary has since been changed so that its
\* keys are no longer those
C10_Witness ==
    /\ snap.what = "keys" /\ Len(Elems(snap, m)) = 2
    /\ last.op \in {"add", "delitem", "setitem"}
    /\ Elems(snap, m) # KeysOf(m.contents)

(***************************************************************************)
(* A Catalog in use: filled and emptied with add, index set and del, its   *)
(* default attribute assigned, and read with catalog[key].                 *)
(***************************************************************************)
CatalogInstances ==
    {Catalog(<<>>, f, Str("all"), arl) : f \in Factories, arl \in BOOLEAN}
DefaultArgs == {Str("a"), Str("c"), List(<<"b", "a">>), Str("default")}
CatalogKeys ==
    {Str("all"), Str("default"), Str("none"), List(<<"none">>), Str("a"),
     Str("c"), List(<<"b", "a">>), List(<<"a", "c">>)}
CatalogSetKeys == {Str("a"), Str("b"), List(<<"a", "b">>), List(<<"c">>)}
CatalogDelKeys ==
    {Str("a"), Str("c"), Str("all"), List(<<"a", "b">>), List(<<"b", "b">>),
     List(<<"b", "none">>)}

InitCatalog ==
    /\ m \in CatalogInstances
    /\ sub = NoInst
    /\ heap = [r \in Refs |-> "free"]
    /\ snap = NoSnap
    /\ last = NoCall

\* m[key]
GetItemAt(key) ==
    /\ \E r \in {GetItem(m, key)} :
        last' = Called("getitem", key, NoArg, PyNone, <<>>, r)
    /\ UNCHANGED <<m, sub, heap, snap>>

\* m.default = key
SetDefaultGroup(key) ==
    /\ m.kind = "Catalog"
    /\ m' = [m EXCEPT !.default = key]
    /\ last' = Called("default", key, NoArg, PyNone, <<>>, Ok(PyNone))
    /\ UNCHANGED <<sub, heap, snap>>

NextCatalog ==
    \/ \E item \in AddItems : Add(item)
    \/ \E other \in AddItems : Plus(other)
    \/ \E other \in AddItems : PlusAssign(other)
    \/ \E key \in CatalogDelKeys : DelItem(key)
    \/ \E key \in CatalogSetKeys, value \in Lits :
            key.t = "str" /\ SetItemAt(key, value, <<>>)
    \/ \E key \in CatalogSetKeys, values \in {<<"x", "y">>, <<"y">>} :
            key.t = "list" /\ SetItemAt(key, PyNone, values)
    \/ \E key \in DefaultArgs : SetDefaultGroup(key)
    \/ \E key \in CatalogKeys : GetItemAt(key)

SpecCatalog == InitCatalog /\ [][NextCatalog]_vars

\* Bunch.__len__: len(self.contents)
Bunch_len(self) == Len(self.contents)

CatalogLookup == last.op = "getitem" /\ m.kind = "Catalog"

\* C11: on every Catalog that add, del and index set lead to, catalog['all']
\* returns the list of the stored values in the order of their keys, and the
\* list is as long as len(catalog).
C11_AllReturnsEveryValue ==
    [](CatalogLookup /\ last.key \in _ALL_KEYS
        => /\ last.ret.err = "none" /\ last.ret.tag = "list"
           /\ Len(last.ret.l) = Bunch_len(m)
           /\ \A i \in 1..Len(m.contents) : last.ret.l[i] = m.contents[i][2])

\* catalog['all'] on a Catalog of two keys with different values
C11_Witness ==
    /\ CatalogLookup /\ last.key = Str("all")
    /\ Len(m.contents) = 2 /\ m.contents[1][2] # m.contents[2][2]
    /\ last.ret.tag = "list" /\ Len(last.ret.l) = 2

\* C12: catalog['default'] is catalog[catalog.default].  Right after
\* catalog.default = k the two lookups have the same outcome, every lookup of
\* a default key has the outcome of a lookup of the default attribute, and
\* while the attribute is 'all', as it is made, that is catalog['all'].
C12_DefaultLooksUpDefaultGroup ==
    /\ [][last'.op = "default"
            => /\ m'.default = last'.key
               /\ GetItem(m', Str("default")) = GetItem(m', last'.key)]_vars
    /\ [](CatalogLookup /\ last.key \in _DEFAULT_KEYS
            => /\ last.ret = GetItem(m, m.default)
               /\ (m.default = Str("all")
                    => last.ret = OkList([i \in 1..Len(m.contents) |->
                                            m.contents[i][2]])))

\* catalog['default'] after catalog.default = ['b', 'a'], both keys stored
C12_Witness ==
    /\ CatalogLookup /\ last.key = Str("default")
    /\ m.default = List(<<"b", "a">>) /\ KeysOf(m.contents) = <<"a", "b">>
    /\ last.ret.tag = "list" /\ Len(last.ret.l) = 2

\* the values of the keys of ks that c stores, in the order of ks
PresentValues(c, ks) ==
    LET present == SelectSeq(ks, LAMBDA k : Has(c, k))
    IN [i \in 1..Len(present) |-> Lookup(c, present[i])]

\* C14: a lookup of a none key returns default_factory() when default_factory
\* can be called, default_factory itself when it is set and cannot, and with
\* no default_factory the empty list when always_return_list is on and None
\* when it is off; it never raises and leaves the Catalog as it was.
C14_NoneLookup ==
    /\ [](CatalogLookup /\ last.key \in _NONE_KEYS
            => last.ret =
                IF m.default_factory = PyNone
                    THEN IF m.always_return_list THEN OkList(<<>>) ELSE Ok(PyNone)
                ELSE IF m.default_factory = Producer THEN Ok(Produced)
                ELSE Ok(m.default_factory))
    /\ [][last'.op = "getitem" => m' = m]_vars

\* catalog['none'] on a Catalog that stores a key and has a default_factory
\* to call
C14_Witness ==
    /\ CatalogLookup /\ last.key = Str("none")
    /\ m.default_factory = Producer /\ m.contents # <<>>
    /\ last.ret = Ok(Produced)

\* C15 as stated: catalog[key] = value stores value under a scalar key; with
\* a list of keys and a list of values of the same length it stores each
\* value under its key; with lists of different lengths it raises and the
\* contents are as they were.
C15_AsStated ==
    [][last'.op = "setitem" /\ m.kind = "Catalog"
        => IF last'.key.t = "str"
            THEN /\ last'.ret = Ok(PyNone)
                 /\ Has(m'.contents, last'.key.s)
                 /\ Lookup(m'.contents, last'.key.s) = last'.value
           ELSE IF Len(last'.key.l) = Len(last'.item)
            THEN /\ last'.ret = Ok(PyNone)
                 /\ \A i \in 1..Len(last'.key.l) :
                        /\ Has(m'.contents, last'.key.l[i])
                        /\ Lookup(m'.contents, last'.key.l[i]) = last'.item[i]
           ELSE last'.ret.err # "none" /\ m' = m]_vars

\* C16 as stated: catalog.delete(item), for a key or a list of keys, raises
\* KeyError and leaves the contents as they were when a key given is not
\* stored, and else removes the keys given and no other, so that len goes
\* down by the number of different keys given.
C16_AsStated ==
    [][last'.op = "delitem" /\ m.kind = "Catalog"
        => LET given == SeqSet(iterify(last'.key)) IN
           IF given \subseteq KeySet(m.contents)
            THEN /\ last'.ret = Ok(PyNone)
                 /\ m'.contents
                        = SelectSeq(m.contents, LAMBDA p : p[1] \notin given)
                 /\ Bunch_len(m') = Bunch_len(m) - Cardinality(given)
            ELSE last'.ret = Raise("KeyError") /\ m' = m]_vars

(***************************************************************************)
(* A ChainDictionary in use: layers added, keys set and deleted, and read  *)
(* with chain[key].                                                        *)
(***************************************************************************)
ChainKeyArgs == {Str(k) : k \in StoreKeys} \cup {List(<<"a">>)}

InitChain ==
    /\ m \in {ChainDictionary(<<>>, PyNone, rf) : rf \in BOOLEAN}
    /\ sub = NoInst
    /\ heap = [r \in Refs |-> "free"]
    /\ snap = NoSnap
    /\ last = NoCall

NextChain ==
    \/ \E item \in AddLayers : AddLayer(item)
    \/ \E other \in AddLayers : Plus(other)
    \/ \E other \in AddLayers : PlusAssign(other)
    \/ \E key \in ChainKeyArgs, value \in Lits : SetItemAt(key, value, <<>>)
    \/ \E key \in ChainKeyArgs : DelItem(key)
    \/ \E key \in ChainKeyArgs : GetItemAt(key)
    \/ \E item \in AddLayers : SetMaps(<<item>>)
    \/ DelMaps

SpecChain == InitChain /\ [][NextChain]_vars

ChainLookup == last.op = "getitem" /\ m.kind = "ChainDictionary" /\ last.key.t = "str"

\* the places of the layers that store the key
Holders(self, k) ==
    {i \in 1..Len(self.contents) : Has(self.contents[i].contents, k)}

\* the values the layers store for the key, in layer order
HeldValues(self, k) ==
    LET holding == SelectSeq(self.contents, LAMBDA d : Has(d.contents, k))
    IN [i \in 1..Len(holding) |-> Lookup(holding[i].contents, k)]

\* C17: chain[key] with return_first on returns, as it is, the value of the
\* first layer in layer order that stores the key; with return_first on or
\* off it raises KeyError when no layer stores the key.
C17_FirstLayerWins ==
    [](ChainLookup
        => IF Holders(m, last.key.s) = {} THEN last.ret = Raise("KeyError")
           ELSE m.return_first
                => \E i \in Holders(m, last.key.s) :
                    /\ \A j \in Holders(m, last.key.s) : i <= j
                    /\ last.ret = Ok(Lookup(m.contents[i].contents, last.key.s)))

\* chain['a'] with return_first on, two layers storing different values for it
C17_Witness ==
    /\ ChainLookup /\ m.return_first /\ Cardinality(Holders(m, last.key.s)) = 2
    /\ HeldValues(m, last.key.s)[1] # HeldValues(m, last.key.s)[2]
    /\ last.ret = Ok(HeldValues(m, last.key.s)[1])

\* C18 as stated: chain[key] for a key that one layer and no other stores
\* returns the stored value itself, with return_first on and with it off.
C18_AsStated ==
    [](ChainLookup /\ Cardinality(Holders(m, last.key.s)) = 1
        => last.ret = Ok(HeldValues(m, last.key.s)[1]))

\* C19 as stated: chain[key] with return_first off, for a key that more than
\* one layer stores, returns the list of the values of the layers that store
\* it, in layer order.
C19_AsStated ==
    [](ChainLookup /\ ~m.return_first /\ Cardinality(Holders(m, last.key.s)) > 1
        => last.ret = OkList(HeldValues(m, last.key.s)))

\* C20: chain[key] = value writes into the first layer only.  With a layer
\* or more, the first layer stores value under key and keeps its other
\* entries, and the other layers and the number of layers are as they were;
\* with no layer, the contents become one new Dictionary of the one entry.
C20_SetItemWritesFirstLayer ==
    [][last'.op = "setitem" /\ m.kind = "ChainDictionary" /\ last'.key.t = "str"
        => /\ last'.ret = Ok(PyNone)
           /\ m' = [m EXCEPT !.contents = m'.contents]
           /\ IF Bunch_len(m) = 0
                THEN m'.contents
                        = <<Dictionary(<<<<last'.key.s, last'.value>>>>, PyNone)>>
                ELSE /\ Bunch_len(m') = Bunch_len(m)
                     /\ \A i \in 2..Len(m.contents) : m'.contents[i] = m.contents[i]
                     /\ Has(m'.contents[1].contents, last'.key.s)
                     /\ Lookup(m'.contents[1].contents, last'.key.s) = last'.value
                     /\ OthersKept(m.contents[1].contents, m'.contents[1].contents,
                                   {last'.key.s})
                     /\ KeySet(m'.contents[1].contents)
                            = KeySet(m.contents[1].contents) \cup {last'.key.s}]_vars

\* chain['a'] = value on a chain of two layers, the second storing another
\* value for 'a'
C20_Witness ==
    /\ last.op = "setitem" /\ m.kind = "ChainDictionary" /\ last.key.t = "str"
    /\ Len(m.contents) = 2
    /\ Has(m.contents[2].contents, last.key.s)
    /\ Lookup(m.contents[2].contents, last.key.s) # last.value
    /\ Lookup(m.contents[1].contents, last.key.s) = last.value

\* C21: chain.delete(key), also as del chain[key], removes the key from every
\* layer that stores it and raises nothing when some or all layers do not;
\* the other entries and the number of layers are as they were, a second
\* delete of the key changes nothing, and chain[key] then raises KeyError.
C21_DeleteFromEveryLayer ==
    [][last'.op = "delitem" /\ m.kind = "ChainDictionary" /\ last'.key.t = "str"
        => /\ last'.ret = Ok(PyNone)
           /\ Bunch_len(m') = Bunch_len(m)
           /\ m' = [m EXCEPT !.contents = m'.contents]
           /\ \A i \in 1..Len(m.contents) :
                /\ m'.contents[i].contents
                    = SelectSeq(m.contents[i].contents,
                                LAMBDA p : p[1] # last'.key.s)
                /\ m'.contents[i]
                    = [m.contents[i] EXCEPT !.contents = m'.contents[i].contents]
           /\ Delete(m', last'.key) = Done(m', Ok(PyNone))
           /\ GetItem(m', last'.key) = Raise("KeyError")]_vars

\* del chain[key] on a chain of two layers, the first now empty and the
\* second still storing another key
C21_Witness ==
    /\ last.op = "delitem" /\ m.kind = "ChainDictionary" /\ last.key.t = "str"
    /\ last.ret = Ok(PyNone) /\ Len(m.contents) = 2
    /\ m.contents[1].contents = <<>> /\ m.contents[2].contents # <<>>

\* C23: on a Repository with overwrite off, add stores the item under a key
\* that was free: the key given or inferred or, when that is taken, the
\* first of key_2, key_3, ... that is not.  Every entry stored before keeps
\* its place and value and len grows by one.
C23_AddKeepsEveryEntry ==
    [][last'.op = "add" /\ m.kind = "Repository" /\ ~m.overwrite
        => LET named == IF last'.key \in {NoArg, Str("")}
                            THEN last'.value ELSE last'.key.s
               new == m'.contents[Len(m'.contents)] IN
           /\ last'.ret = Ok(PyNone)
           /\ Bunch_len(m') = Bunch_len(m) + 1
           /\ SubSeq(m'.contents, 1, Len(m.contents)) = m.contents
           /\ new[2] = last'.value
           /\ ~Has(m.contents, new[1])
           /\ \E i \in 1..Len(Suffixed(named)) :
                /\ new[1] = Suffixed(named)[i]
                /\ \A j \in 1..(i - 1) : Has(m.contents, Suffixed(named)[j])]_vars

\* two items of the same name added with overwrite off: the second is stored
\* under the name with the suffix _2
C23_Witness ==
    /\ last.op = "add" /\ m.kind = "Repository" /\ ~m.overwrite
    /\ last.key = NoArg /\ Len(m.contents) = 2
    /\ m.contents[1][1] = last.value
    /\ m.contents[2][1] = Suffixed(last.value)[2]

\* C25 as stated: chain.subset(include, exclude) returns, for every include
\* and exclude, a new chain of as many layers in the same order, layer i
\* holding the keys of layer i of the chain that are in include (all of them
\* when include is not given) and not in exclude.
C25_AsStated ==
    [][last'.op = "subset" /\ m.kind = "ChainDictionary"
            /\ (last'.key # NoArg \/ last'.exclude # NoArg)
        => /\ last'.ret.tag = "inst"
           /\ Len(last'.ret.inst.contents) = Len(m.contents)
           /\ \A i \in 1..Len(m.contents) :
                KeysOf(last'.ret.inst.contents[i].contents)
                    = SelectSeq(KeysOf(m.contents[i].contents),
                        LAMBDA k :
                            /\ last'.key # NoArg
                                => k \in SeqSet(iterify(last'.key))
                            /\ last'.exclude # NoArg
                                => k \notin SeqSet(iterify(last'.exclude)))]_vars

(***************************************************************************)
(* A Catalog whose keys may be the words of the wildcard keys: set and     *)
(* deleted by index, its default attribute assigned, and read with         *)
(* catalog[key] and key in catalog.                                        *)
(***************************************************************************)
WordKeys == {Str("a"), Str("b"), Str("all"), Str("none"), Str("default")}
WordDefaults == {Str("a"), Str("default"), Str("defaults")}
WordLookups ==
    WordKeys \cup {Str("c"), List(<<"all">>), List(<<"a", "all">>),
                   List(<<"all", "a">>), List(<<"b", "a">>)}

InitWords ==
    /\ m \in {Catalog(<<>>, f, Str("all"), arl) :
                f \in {PyNone, Producer}, arl \in BOOLEAN}
    /\ sub = NoInst
    /\ heap = [r \in Refs |-> "free"]
    /\ snap = NoSnap
    /\ last = NoCall

\* key in m
ContainsAt(key) ==
    /\ \E r \in {Mapping_contains(m, key)} :
        last' = Called("contains", key, NoArg, PyNone, <<>>, r)
    /\ UNCHANGED <<m, sub, heap, snap>>

NextWords ==
    \/ \E key \in WordKeys, value \in Lits : SetItemAt(key, value, <<>>)
    \/ \E key \in WordKeys : DelItem(key)
    \/ \E key \in WordDefaults : SetDefaultGroup(key)
    \/ \E key \in WordLookups : GetItemAt(key)
    \/ \E key \in WordKeys : ContainsAt(key)

SpecWords == InitWords /\ [][NextWords]_vars

\* place i of the list returned is catalog[key i], for every key of the list
Elementwise ==
    \A i \in 1..Len(last.key.l) :
        /\ i <= Len(last.ret.l)
        /\ Ok(last.ret.l[i]) = GetItem(m, Str(last.key.l[i]))

\* C13 as stated: a lookup with any list of keys returns the list of the
\* values of the keys that are stored, in the order given, and never raises;
\* when every key of the list is stored, place i of the list is
\* catalog[key i].
C13_AsStated ==
    [](CatalogLookup /\ last.key.t = "list"
        => /\ last.ret = OkList(PresentValues(m.contents, last.key.l))
           /\ (SeqSet(last.key.l) \subseteq KeySet(m.contents)
                => Elementwise))

\* C13: a lookup with a list of keys that is not one of the wildcard keys
\* (['all'], ['default'], ['none'] and their aliases) returns the list of the
\* values of the keys that are stored, in the order given, and never raises,
\* the words of wildcard keys being looked up as stored keys like any other;
\* when every key is stored, none of them is the word of a wildcard key and
\* always_return_list is off, place i of the list is catalog[key i].
C13_ListLookupReturnsPresent ==
    [](CatalogLookup /\ last.key.t = "list" /\ ~Wildcard(last.key)
        => /\ last.ret = OkList(PresentValues(m.contents, last.key.l))
           /\ ((SeqSet(last.key.l) \subseteq KeySet(m.contents)
                    /\ (\A k \in SeqSet(last.key.l) : ~Wildcard(Str(k)))
                    /\ ~m.always_return_list)
                => Elementwise))

\* catalog[['b', 'a']] on a Catalog that stores a before b, with
\* always_return_list off
C13_Witness ==
    /\ CatalogLookup /\ last.key = List(<<"b", "a">>)
    /\ KeysOf(m.contents) = <<"a", "b">>
    /\ m.contents[1][2] # m.contents[2][2]
    /\ ~m.always_return_list
    /\ last.ret = OkList(<<m.contents[2][2], m.contents[1][2]>>)

\* C24: catalog[key] takes the key for an all key first, then a default
\* key, then a none key, then a list of keys, then a scalar key; so a stored
\* key that is a wildcard word is not reached by catalog[key], and a list
\* that is not a wildcard key has its words looked up as stored keys.  A
\* scalar key that is no wildcard returns the stored value, in a list of one
\* when always_return_list is on, and raises KeyError when it is not stored.
C24_LookupPrecedence ==
    [](CatalogLookup
        => last.ret =
            IF last.key \in _ALL_KEYS
                THEN OkList([i \in 1..Len(m.contents) |-> m.contents[i][2]])
            ELSE IF last.key \in _DEFAULT_KEYS THEN GetItem(m, m.default)
            ELSE IF last.key \in _NONE_KEYS
                THEN IF m.default_factory = PyNone
                        THEN IF m.always_return_list THEN OkList(<<>>)
                             ELSE Ok(PyNone)
                     ELSE IF m.default_factory = Producer THEN Ok(Produced)
                     ELSE Ok(m.default_factory)
            ELSE IF last.key.t = "list"
                THEN OkList(PresentValues(m.contents, last.key.l))
            ELSE IF Has(m.contents, last.key.s)
                THEN IF m.always_return_list
                        THEN OkList(<<Lookup(m.contents, last.key.s)>>)
                        ELSE Ok(Lookup(m.contents, last.key.s))
            ELSE Raise("KeyError"))

\* catalog['all'] on a Catalog that stores the key 'all' and another key
C24_Witness ==
    /\ CatalogLookup /\ last.key = Str("all")
    /\ Has(m.contents, "all") /\ Len(m.contents) = 2
    /\ last.ret.tag = "list" /\ Len(last.ret.l) = 2

\* C27 as stated: key in catalog is True when the key is a stored key and
\* False when it is not, wildcard words included, and del catalog[key] of a
\* key that is not stored raises KeyError.
C27_AsStated ==
    /\ [](last.op = "contains" /\ m.kind = "Catalog"
            => last.ret = Ok(IF Has(m.contents, last.key.s)
                                THEN PyTrue ELSE PyFalse))
    /\ [][last'.op = "delitem" /\ m.kind = "Catalog" /\ last'.key.t = "str"
                /\ ~Has(m.contents, last'.key.s)
            => last'.ret = Raise("KeyError")]_vars

\* C28 as stated: catalog[key] for a default key returns or raises KeyError
\* whatever the default attribute holds, a default key included: the lookup
\* of the attribute does not go on until the interpreter stops it.
C28_AsStated ==
    [](CatalogLookup /\ last.key \in _DEFAULT_KEYS
        => last.ret.err # "RecursionError")

(***************************************************************************)
(* A ChainDictionary whose layers are put in at both ends, read with       *)
(* keys(), values(), len() and iter().                                     *)
(***************************************************************************)
\* layers in which 'a' stores 'x' and 'b' stores 'y'
KeyedLayers ==
    {d \in AddLayers :
        \A i \in 1..Len(d.contents) :
            d.contents[i][2] = IF d.contents[i][1] = "a" THEN "x" ELSE "y"}

\* what iter() yields: a key, or a layer
KeyItem(k) == [t |-> "key", k |-> k, d |-> NoInst]
LayerItem(d) == [t |-> "layer", k |-> "", d |-> d]

\* Bunch.__iter__: iter(self.contents), the keys of a dict, the layers of a
\* list
Bunch_iter(self) ==
    IF self.kind = "ChainDictionary"
        THEN [i \in 1..Len(self.contents) |-> LayerItem(self.contents[i])]
        ELSE [i \in 1..Len(self.contents) |-> KeyItem(self.contents[i][1])]

InitLayers ==
    /\ m = ChainDictionary(<<>>, PyNone, TRUE)
    /\ sub = NoInst
    /\ heap = [r \in Refs |-> "free"]
    /\ snap = NoSnap
    /\ last = NoCall

\* m.new_child(item)
NewChild(item) ==
    /\ m.kind = "ChainDictionary"
    /\ \E r \in {ChainDictionary_new_child(m, item)} :
        /\ Fits(r.self)
        /\ m' = r.self
        /\ last' = Called("new_child", NoArg, NoArg, PyNone, item.contents, r.ret)
    /\ UNCHANGED <<sub, heap, snap>>

\* snap = len(m)
TakeLen ==
    /\ snap' = Tuple("len", <<Bunch_len(m)>>)
    /\ last' = Called("len", NoArg, NoArg, PyNone, <<>>, Ok(PyNone))
    /\ UNCHANGED <<m, sub, heap>>

\* snap = tuple(iter(m))
TakeIter ==
    /\ snap' = Tuple("iter", Bunch_iter(m))
    /\ last' = Called("iter", NoArg, NoArg, PyNone, <<>>, Ok(PyNone))
    /\ UNCHANGED <<m, sub, heap>>

NextLayers ==
    \/ \E item \in KeyedLayers : AddLayer(item)
    \/ \E other \in KeyedLayers : Plus(other)
    \/ \E other \in KeyedLayers : PlusAssign(other)
    \/ \E item \in KeyedLayers : NewChild(item)
    \/ TakeKeys
    \/ TakeValues
    \/ TakeLen
    \/ TakeIter
    \/ \E item \in KeyedLayers : SetMaps(<<item>>)
    \/ DelMaps

SpecLayers == InitLayers /\ [][NextLayers]_vars

\* the keys, or the values, of the first n layers, layer after layer
RECURSIVE Joined(_, _, _)
Joined(layers, n, col) ==
    IF n = 0 THEN <<>>
    ELSE Joined(layers, n - 1, col)
         \o [i \in 1..Len(layers[n].contents) |-> layers[n].contents[i][col]]

\* C22: on a chain, keys() and values() are the keys and the values of the
\* layers put end to end in layer order, a key of several layers as many
\* times; new_child(map) puts map before the layers, which stay as they
\* were, in their order, so that keys() then starts with the keys of map.
C22_KeysJoinLayers ==
    /\ [](m.kind = "ChainDictionary" /\ last.op = "keys"
            => Elems(snap, m) = Joined(m.contents, Len(m.contents), 1))
    /\ [](m.kind = "ChainDictionary" /\ last.op = "values"
            => Elems(snap, m) = Joined(m.contents, Len(m.contents), 2))
    /\ [][last'.op = "new_child"
            => /\ last'.ret = Ok(PyNone)
               /\ Len(m'.contents) = Len(m.contents) + 1
               /\ m'.contents[1].contents = last'.item
               /\ \A i \in 1..Len(m.contents) : m'.contents[i + 1] = m.contents[i]
               /\ Elems(Keys(m'), m')
                    = KeysOf(last'.item) \o Elems(Keys(m), m)]_vars

\* keys() of a chain of two layers that store the same key
C22_Witness ==
    /\ m.kind = "ChainDictionary" /\ last.op = "keys" /\ Len(m.contents) = 2
    /\ m.contents[1].contents # <<>>
    /\ m.contents[1].contents = m.contents[2].contents
    /\ Len(Elems(snap, m)) = 2 * Len(m.contents[1].contents)

\* C30 as stated: on every variant, a chain included, len() is the number of
\* entries of keys() and iter() yields the entries of keys(), in their order.
C30_AsStated ==
    /\ [](last.op = "len" => snap.elems = <<Len(Elems(Keys(m), m))>>)
    /\ [](last.op = "iter"
            => snap.elems = [i \in 1..Len(Elems(Keys(m), m)) |->
                                KeyItem(Elems(Keys(m), m)[i])])

(***************************************************************************)
(* A ChainDictionary and what its parents() returns, read with             *)
(* parents[key].                                                           *)
(***************************************************************************)
\* layers that store nothing or a value for 'a'
OneKeyLayers == {Dictionary(c, PyNone) : c \in Dicts({"a"}, Lits, MaxLayerLen)}

InitParents ==
    /\ m \in {ChainDictionary(<<>>, f, rf) : f \in {PyNone, "z"}, rf \in BOOLEAN}
    /\ sub = NoInst
    /\ heap = [r \in Refs |-> "free"]
    /\ snap = NoSnap
    /\ last = NoCall

\* sub = m.parents()
Parents ==
    /\ m.kind = "ChainDictionary"
    /\ \E r \in {ChainDictionary_parents(m)} :
        /\ m' = r.self
        /\ sub' = r.ret.inst
        /\ last' = Called("parents", NoArg, NoArg, PyNone, <<>>, r.ret)
    /\ UNCHANGED <<heap, snap>>

\* sub[key]
SubGetItemAt(key) ==
    /\ sub # NoInst
    /\ \E r \in {GetItem(sub, key)} :
        last' = Called("sub.getitem", key, NoArg, PyNone, <<>>, r)
    /\ UNCHANGED <<m, sub, heap, snap>>

NextParents ==
    \/ \E item \in OneKeyLayers : AddLayer(item)
    \/ \E other \in OneKeyLayers : Plus(other)
    \/ \E other \in OneKeyLayers : PlusAssign(other)
    \/ Parents
    \/ \E key \in {Str("a"), Str("b")} : SubGetItemAt(key)
    \/ \E item \in OneKeyLayers : SetMaps(<<item>>)
    \/ DelMaps

SpecParents == InitParents /\ [][NextParents]_vars

\* C26: parents() returns a new chain of the layers of the chain but the
\* first, in their order, and the chain it is called on keeps its layers
\* and their contents; on a chain of one layer or none it returns a chain of
\* no layers.
C26_ParentsDropsFirstLayer ==
    [][last'.op = "parents"
        => /\ m' = m
           /\ last'.ret.tag = "inst" /\ sub' = last'.ret.inst
           /\ sub'.kind = "ChainDictionary"
           /\ sub'.contents
                = [i \in 1..(IF Len(m.contents) = 0 THEN 0 ELSE Len(m.contents) - 1)
                    |-> m.contents[i + 1]]
           /\ (Len(m.contents) <= 1 => sub'.contents = <<>>)]_vars

\* parents() of a chain of two layers that store different values
C26_Witness ==
    /\ last.op = "parents" /\ Len(m.contents) = 2
    /\ m.contents[1].contents # <<>> /\ m.contents[2].contents # <<>>
    /\ m.contents[1] # m.contents[2]
    /\ sub.contents = <<m.contents[2]>>

\* C29 as stated: the chain parents() returns has the default_factory and
\* the return_first of the chain it is called on, and a lookup in it has the
\* outcome of that lookup in a chain of its layers with those settings.
C29_AsStated ==
    /\ [][last'.op = "parents"
            => /\ sub'.default_factory = m.default_factory
               /\ sub'.return_first = m.return_first]_vars
    /\ [](last.op = "sub.getitem"
            => last.ret = GetItem(ChainDictionary(sub.contents, m.default_factory,
                                                  m.return_first), last.key))

====
